---- MODULE Spec2Model ----
(***************************************************************************)
(* Model of static/js/app.js, the BrainBeacon chat page controller.        *)
(*                                                                         *)
(* The script runs on the browser's single event loop.  Every handler runs *)
(* to completion or up to its next `await`; each action below is one such  *)
(* run-to-completion segment.  The asynchronous functions (handleSend,     *)
(* initializeSession, handleNewChat) are therefore split at their awaits:  *)
(* the segment up to `await fetch(...)`, the segment between fetch         *)
(* settling and `await response.json()`, and the segment after the body    *)
(* has been read (together with the catch and finally blocks).             *)
(*                                                                         *)
(* Layout-only writes (style.height in adjustTextareaHeight, scrollTop in  *)
(* addMessage / addLoadingIndicator), the avatar child that createAvatar   *)
(* builds from the role alone, e.preventDefault and console.error carry no *)
(* state that any handler reads, and are not represented.                  *)
(***************************************************************************)
EXTENDS Integers, Sequences, FiniteSets, Bags, TLC

VARIABLES
    currentSessionId,   \* app.js:7   let currentSessionId
    isWaitingResponse,  \* app.js:8   let isWaitingResponse
    isComposing,        \* app.js:9   let isComposing
    inputValue,         \* messageInput.value, a sequence of characters
    sendBtnDisabled,    \* sendBtn.disabled
    chatContainer,      \* the children of #chatContainer, in document order
    chatCalls,          \* handleSend invocations suspended at an await
    sessCalls,          \* bag of initializeSession / handleNewChat invocations suspended at an await
    hasMarked,          \* window.marked is present
    hasDOMPurify,       \* window.DOMPurify is present
    lastEvent           \* history: the handler segment that ran last

vars == <<currentSessionId, isWaitingResponse, isComposing, inputValue,
          sendBtnDisabled, chatContainer, chatCalls, sessCalls,
          hasMarked, hasDOMPurify, lastEvent>>

----------------------------------------------------------------------------
(* Bounds of the model *)

\* most message rows (user, assistant, typing) the view holds: a send that
\* would grow the view beyond it is not taken
MaxRows == 2
\* most handleSend invocations suspended at once
MaxChatCalls == 2
\* most /api/new_session requests outstanding at once
MaxSessCalls == 2

----------------------------------------------------------------------------
(* Values *)

\* texts the user can leave in the input box, as sequences of characters:
\* nothing, blanks only, a message, and the same message padded with blanks
InputValues == {<<>>, <<" ">>, <<"a">>, <<" ", "a", " ">>}

\* String.prototype.trim: drop leading and trailing white space
RECURSIVE TrimStart(_)
TrimStart(s) ==
    IF s /= <<>> /\ Head(s) = " " THEN TrimStart(Tail(s)) ELSE s

RECURSIVE TrimEnd(_)
TrimEnd(s) ==
    IF s /= <<>> /\ s[Len(s)] = " " THEN TrimEnd(SubSeq(s, 1, Len(s) - 1)) ELSE s

Trim(s) == TrimEnd(TrimStart(s))

\* the JavaScript value undefined, where a session token is expected
Undefined == "undefined"

\* session tokens the backend hands out
Tokens == {"s1", "s2"}

\* initial value of currentSessionId
DefaultSessionId == "default"

\* the fixed text shown when an exchange fails
ApologyText == <<"apology">>

----------------------------------------------------------------------------
(* The view: children of #chatContainer *)

\* the .welcome-message block written by handleNewChat
WelcomeElement ==
    [cls |-> "welcome-message", id |-> "", mode |-> "html", body |-> <<>>]

\* createElement('div') with className `message ${role}` and a message-content child
MessageElement(role, mode, body) ==
    [cls |-> "message " \o role, id |-> "", mode |-> mode, body |-> body]

\* the row built by addLoadingIndicator: class 'message assistant', id 'loading-indicator'
LoadingElement ==
    [cls |-> "message assistant", id |-> "loading-indicator", mode |-> "html",
     body |-> <<"typing-indicator">>]

\* the page as served: the input is empty, the send button carries the disabled
\* attribute, and the container shows the welcome block
InitialInputValue == <<>>
InitialSendBtnDisabled == TRUE
InitialChatContainer == <<WelcomeElement>>

IsWelcome(e) == e.cls = "welcome-message"
IsLoading(e) == e.id = "loading-indicator"
IsUserMessage(e) == e.cls = "message user"
IsAssistantMessage(e) == e.cls = "message assistant" /\ e.id = ""

\* Element.remove(): the view without its i-th child
RemoveAt(view, i) == SubSeq(view, 1, i - 1) \o SubSeq(view, i + 1, Len(view))

\* the first match in document order, as querySelector / getElementById return it
FirstOf(hits) == CHOOSE i \in hits : \A j \in hits : i <= j

\* lines 108-111 with the welcome block left in place
RemoveWelcomeKeeping(view) == view

\* chatContainer.querySelector('.welcome-message'); if (welcomeMsg) welcomeMsg.remove()
RemoveWelcome(view) ==
    LET hits == {i \in DOMAIN view : IsWelcome(view[i])}
    IN  IF hits = {} THEN view ELSE RemoveAt(view, FirstOf(hits))

\* lines 209-214 with the row left in place
removeLoadingIndicatorKeeping(view) == view

\* removeLoadingIndicator(id): getElementById(id), removed when found
removeLoadingIndicator(view) ==
    LET hits == {i \in DOMAIN view : IsLoading(view[i])}
    IN  IF hits = {} THEN view ELSE RemoveAt(view, FirstOf(hits))

\* addLoadingIndicator(): the typing row is appended to the container
addLoadingIndicator(view) == Append(view, LoadingElement)

----------------------------------------------------------------------------
(* Markdown rendering and sanitising *)

\* Text of a reply is a sequence of fragments: plain text "a", Markdown
\* emphasis "*a*", and raw executable markup "<script>".
Fragments == {"a", "*a*", "<script>"}
ResponseTexts == {<<"a", "*a*", "<script>">>}

\* marked.parse: Markdown syntax becomes markup, raw HTML is passed through
markedParseFragment(f) == IF f = "*a*" THEN "<em>a</em>" ELSE f
markedParse(content) == [i \in DOMAIN content |-> markedParseFragment(content[i])]

\* DOMPurify.sanitize: executable markup is dropped, the rest is kept
IsExecutable(f) == f = "<script>"
RECURSIVE DOMPurifySanitize(_)
DOMPurifySanitize(html) ==
    IF html = <<>> THEN <<>>
    ELSE IF IsExecutable(Head(html)) THEN DOMPurifySanitize(Tail(html))
    ELSE <<Head(html)>> \o DOMPurifySanitize(Tail(html))

\* A value handed to addMessage as content: a string, or undefined
StringValue(text) == [defined |-> TRUE, text |-> text]
UndefinedValue == [defined |-> FALSE, text |-> <<>>]

\* addMessage takes the Markdown branch (line 167)
UsesMarkdown(role, marked, purify) == role = "assistant" /\ marked /\ purify

\* addMessage throws: marked.parse rejects a content that is not a string
addMessageThrows(role, content, marked, purify) ==
    UsesMarkdown(role, marked, purify) /\ ~content.defined

\* lines 167-169 with the parsed markup assigned as it comes from marked.parse
addMessageElementUnsanitized(role, content, marked, purify) ==
    IF role = "assistant" /\ marked
    THEN MessageElement(role, "html", markedParse(content.text))
    ELSE MessageElement(role, "text", content.text)

\* the row addMessage builds for (role, content)
addMessageElement(role, content, marked, purify) ==
    IF UsesMarkdown(role, marked, purify)
    THEN MessageElement(role, "html", DOMPurifySanitize(markedParse(content.text)))
    ELSE MessageElement(role, "text", content.text)

\* addMessage(role, content): the row is appended; nothing is appended when it throws
addMessage(view, role, content, marked, purify) ==
    IF addMessageThrows(role, content, marked, purify) THEN view
    ELSE Append(view, addMessageElement(role, content, marked, purify))

\* line 80 without isWaitingResponse
updateSendButtonIgnoringBusy(value, waiting) == ~(Len(Trim(value)) > 0)

\* updateSendButton(): the value assigned to sendBtn.disabled
updateSendButton(value, waiting) ==
    LET hasText == Len(Trim(value)) > 0
    IN  ~hasText \/ waiting

----------------------------------------------------------------------------
(* Suspended asynchronous invocations and network replies *)

\* a handleSend invocation suspended at `await fetch` (pc "fetch") or at
\* `await response.json()` (pc "json"); message and session_id are the request
\* body; viewBefore is history: the view when handleSend was entered
ChatCallDefaultSession(message, sid, view) ==
    [pc |-> "fetch", message |-> message, session_id |-> DefaultSessionId,
     viewBefore |-> view]
ChatCall(message, sid, view) ==
    [pc |-> "fetch", message |-> message, session_id |-> sid, viewBefore |-> view]

\* an initializeSession or handleNewChat invocation suspended at `await fetch`
\* (pc "fetch") or at `await response.json()` (pc "json"); the two functions
\* hold the same try/catch block and no local state besides the position
SessCall(pc) == [pc |-> pc]

\* how a fetch settles: it rejects, or resolves with a 2xx or a non-2xx response
FetchOutcomes == {"network-error", "ok", "bad"}

\* how the fetch of /api/new_session settles, as far as the code can tell:
\* it rejects or it resolves (response.ok is never read there)
SessFetchOutcomes == {"network-error", "response"}

\* how response.json() of /api/chat settles: it rejects (the body is not JSON),
\* or yields an object whose `response` field is a string or is missing
ChatUnparsable == [parsable |-> FALSE, response |-> UndefinedValue]
ChatBody(content) == [parsable |-> TRUE, response |-> content]
ChatBodies ==
    {ChatUnparsable, ChatBody(UndefinedValue)}
        \cup {ChatBody(StringValue(t)) : t \in ResponseTexts}

\* how response.json() of /api/new_session settles: it rejects, or yields an
\* object whose `session_id` field is a token or is missing; ok is the status
\* of the response the body belongs to (response.ok)
SessBody(ok, parsable, sid) == [ok |-> ok, parsable |-> parsable, session_id |-> sid]
SessBodies ==
    {SessBody(ok, FALSE, Undefined) : ok \in BOOLEAN}
        \cup {SessBody(ok, TRUE, t) : ok \in BOOLEAN, t \in Tokens \cup {Undefined}}

\* lines 27-32 and 235-240: /api/new_session is fetched and the caller is suspended
fetchNewSession(calls) == calls (+) SetToBag({SessCall("fetch")})

\* the suspended invocations without the i-th
DropCall(calls, i) == SubSeq(calls, 1, i - 1) \o SubSeq(calls, i + 1, Len(calls))

\* the local states a suspended session invocation can be in
SessCallStates == {SessCall("fetch"), SessCall("json")}

\* message rows in the view (everything but the welcome block)
RowCount(view) == Cardinality({i \in DOMAIN view : ~IsWelcome(view[i])})

----------------------------------------------------------------------------
(* History record of the last handler segment.  op names the handler: "edit" *)
(* for the input and composition listeners, "response" for a fetch that has  *)
(* resolved and left its caller at response.json(), and otherwise the        *)
(* handler itself.  invoked and accepted tell whether handleSend was entered *)
(* and whether it passed its test at line 100; outcome and ok tell how a     *)
(* request ended and what status its response carried; sid is the           *)
(* session_id field of a /api/new_session body that was read.                *)

Event(op) ==
    [op |-> op, key |-> "", shift |-> FALSE, invoked |-> FALSE, accepted |-> FALSE,
     outcome |-> "", ok |-> FALSE, sid |-> ""]

----------------------------------------------------------------------------
(* Initial state: the page has loaded and the DOMContentLoaded handler has   *)
(* run: initializeSession is suspended at its fetch, listeners are attached. *)

Init ==
    /\ currentSessionId = DefaultSessionId
    /\ isWaitingResponse = FALSE
    /\ isComposing = FALSE
    /\ inputValue = InitialInputValue
    /\ sendBtnDisabled = InitialSendBtnDisabled
    /\ chatContainer = InitialChatContainer
    /\ chatCalls = <<>>
    /\ sessCalls = fetchNewSession(EmptyBag)
    /\ hasMarked \in BOOLEAN
    /\ hasDOMPurify \in BOOLEAN
    /\ lastEvent = Event("load")

----------------------------------------------------------------------------
(* handleSend, lines 98-134: the segment up to `await fetch('/api/chat')` *)

\* line 100 without its test of isWaitingResponse
SendAcceptedIgnoringBusy(message, waiting) == ~(message = <<>>)

\* line 100 without its test of the message
SendAcceptedIgnoringEmpty(message, waiting) == ~waiting

\* line 100: the invocation goes on only with a non-empty message and no request pending
SendAccepted(message, waiting) == ~(message = <<>> \/ waiting)

handleSend(ev) ==
    LET message == Trim(inputValue)
    IN  IF ~SendAccepted(message, isWaitingResponse)
        THEN /\ lastEvent' = [ev EXCEPT !.invoked = TRUE]
             /\ UNCHANGED <<currentSessionId, isWaitingResponse, isComposing, inputValue,
                            sendBtnDisabled, chatContainer, chatCalls, sessCalls,
                            hasMarked, hasDOMPurify>>
        ELSE /\ Len(chatCalls) < MaxChatCalls
             /\ RowCount(chatContainer) + 2 <= MaxRows
             /\ inputValue' = <<>>
             /\ chatContainer' =
                    addLoadingIndicator(
                        addMessage(RemoveWelcome(chatContainer), "user",
                                   StringValue(message), hasMarked, hasDOMPurify))
             /\ isWaitingResponse' = TRUE
             /\ sendBtnDisabled' = updateSendButton(inputValue', isWaitingResponse')
             /\ chatCalls' =
                    Append(chatCalls, ChatCall(message, currentSessionId, chatContainer))
             /\ lastEvent' = [ev EXCEPT !.invoked = TRUE, !.accepted = TRUE]
             /\ UNCHANGED <<currentSessionId, isComposing, sessCalls,
                            hasMarked, hasDOMPurify>>

\* handleSend called as a function (it is a global of the page)
HandleSendCall == handleSend(Event("handleSend"))

\* click on #sendBtn; a disabled button dispatches no click
SendBtnClick ==
    /\ ~sendBtnDisabled
    /\ handleSend(Event("click"))

----------------------------------------------------------------------------
(* Listeners on #messageInput, lines 46-65 *)

\* 'input': the user changed the text
InputEvent(v) ==
    /\ v /= inputValue
    /\ inputValue' = v
    /\ sendBtnDisabled' = updateSendButton(v, isWaitingResponse)
    /\ lastEvent' = Event("edit")
    /\ UNCHANGED <<currentSessionId, isWaitingResponse, isComposing, chatContainer,
                   chatCalls, sessCalls, hasMarked, hasDOMPurify>>

CompositionStart ==
    /\ ~isComposing
    /\ isComposing' = TRUE
    /\ lastEvent' = Event("edit")
    /\ UNCHANGED <<currentSessionId, isWaitingResponse, inputValue, sendBtnDisabled,
                   chatContainer, chatCalls, sessCalls, hasMarked, hasDOMPurify>>

CompositionEnd ==
    /\ isComposing
    /\ isComposing' = FALSE
    /\ sendBtnDisabled' = updateSendButton(inputValue, isWaitingResponse)
    /\ lastEvent' = Event("edit")
    /\ UNCHANGED <<currentSessionId, isWaitingResponse, inputValue,
                   chatContainer, chatCalls, sessCalls, hasMarked, hasDOMPurify>>

Keys == {"Enter", "a"}

\* line 59 without its test of isComposing
IsSubmitKeyIgnoringComposition(key, shift, composing) == key = "Enter" /\ ~shift

\* line 59: the key press is a submit key
IsSubmitKey(key, shift, composing) == key = "Enter" /\ ~shift /\ ~composing

\* line 61: the listener's own test before it calls handleSend
KeydownSends(waiting, value) == ~waiting /\ Trim(value) /= <<>>

Keydown(key, shift) ==
    LET ev == [Event("keydown") EXCEPT !.key = key, !.shift = shift]
    IN  IF IsSubmitKey(key, shift, isComposing)
           /\ KeydownSends(isWaitingResponse, inputValue)
        THEN handleSend(ev)
        ELSE /\ lastEvent' = ev
             /\ UNCHANGED <<currentSessionId, isWaitingResponse, isComposing, inputValue,
                            sendBtnDisabled, chatContainer, chatCalls, sessCalls,
                            hasMarked, hasDOMPurify>>

----------------------------------------------------------------------------
(* handleSend, lines 123-156: the segments after the awaits *)

\* lines 143-146 with the reply dropped when its typing row is gone
tryViewDroppingStale(view, content, marked, purify) ==
    IF \A i \in DOMAIN view : ~IsLoading(view[i]) THEN view
    ELSE addMessage(removeLoadingIndicator(view), "assistant", content, marked, purify)

\* lines 143-146: the typing row is removed and the reply is appended
tryView(view, content, marked, purify) ==
    addMessage(removeLoadingIndicator(view), "assistant", content, marked, purify)

\* lines 148-151: the typing row is removed and the apology is appended
catchView(view, marked, purify) ==
    addMessage(removeLoadingIndicator(view), "assistant", StringValue(ApologyText),
               marked, purify)

\* lines 152-153 with the flag left as it is
finallyKeepsWaiting(waiting) == waiting

\* line 153: the value the finally block leaves in isWaitingResponse
finallyIsWaitingResponse(waiting) == FALSE

\* the invocation i ends with the view `view`: the finally block runs and
\* the invocation is gone
ChatSettled(i, outcome, view) ==
    /\ chatContainer' = view
    /\ isWaitingResponse' = finallyIsWaitingResponse(isWaitingResponse)
    /\ sendBtnDisabled' = updateSendButton(inputValue, isWaitingResponse')
    /\ chatCalls' = DropCall(chatCalls, i)
    /\ lastEvent' = [Event("chatDone") EXCEPT !.outcome = outcome]
    /\ UNCHANGED <<currentSessionId, isComposing, inputValue, sessCalls,
                   hasMarked, hasDOMPurify>>

\* `await fetch('/api/chat')` settles (lines 125-138)
ChatFetchSettles(i, outcome) ==
    /\ i \in DOMAIN chatCalls
    /\ chatCalls[i].pc = "fetch"
    /\ IF outcome = "ok"
       THEN /\ chatCalls' = [chatCalls EXCEPT ![i].pc = "json"]
            /\ lastEvent' = Event("response")
            /\ UNCHANGED <<currentSessionId, isWaitingResponse, isComposing, inputValue,
                           sendBtnDisabled, chatContainer, sessCalls,
                           hasMarked, hasDOMPurify>>
       ELSE ChatSettled(i, IF outcome = "bad" THEN "http-error" ELSE "network-error",
                        catchView(chatContainer, hasMarked, hasDOMPurify))

\* `await response.json()` settles (lines 140-155)
ChatJsonSettles(i, body) ==
    /\ i \in DOMAIN chatCalls
    /\ chatCalls[i].pc = "json"
    /\ IF ~body.parsable
       THEN ChatSettled(i, "unparsable", catchView(chatContainer, hasMarked, hasDOMPurify))
       ELSE IF addMessageThrows("assistant", body.response, hasMarked, hasDOMPurify)
       THEN ChatSettled(i, "render-error",
                        catchView(tryView(chatContainer, body.response,
                                          hasMarked, hasDOMPurify),
                                  hasMarked, hasDOMPurify))
       ELSE ChatSettled(i, "success",
                        tryView(chatContainer, body.response, hasMarked, hasDOMPurify))

----------------------------------------------------------------------------
(* initializeSession, lines 25-38, and handleNewChat, lines 217-246 *)

\* click on #newChatBtn: the container is rewritten and /api/new_session is fetched
handleNewChat ==
    /\ BagCardinality(sessCalls) < MaxSessCalls
    /\ chatContainer' = <<WelcomeElement>>
    /\ sessCalls' = fetchNewSession(sessCalls)
    /\ lastEvent' = Event("newChat")
    /\ UNCHANGED <<currentSessionId, isWaitingResponse, isComposing, inputValue,
                   sendBtnDisabled, chatCalls, hasMarked, hasDOMPurify>>

\* `await fetch('/api/new_session')` settles (lines 27-32, 235-240); response.ok
\* is not read: a rejected fetch goes to the catch block, any response goes on
SessFetchSettles(c, outcome) ==
    /\ BagIn(c, sessCalls)
    /\ c.pc = "fetch"
    /\ IF outcome = "network-error"
       THEN /\ sessCalls' = sessCalls (-) SetToBag({c})
            /\ lastEvent' = [Event("sessDone") EXCEPT !.outcome = "network-error"]
       ELSE /\ sessCalls' = (sessCalls (-) SetToBag({c})) (+) SetToBag({SessCall("json")})
            /\ lastEvent' = Event("response")
    /\ UNCHANGED <<currentSessionId, isWaitingResponse, isComposing, inputValue,
                   sendBtnDisabled, chatContainer, chatCalls, hasMarked, hasDOMPurify>>

\* lines 34 and 242 with a token kept once one has been stored
storedSessionIdFirstWins(data) ==
    IF currentSessionId = DefaultSessionId THEN data.session_id ELSE currentSessionId

\* lines 34 and 242: the session id stored once the body has been read
storedSessionId(data) == data.session_id

\* `await response.json()` settles (lines 33-37, 241-245)
SessJsonSettles(c, body) ==
    /\ BagIn(c, sessCalls)
    /\ c.pc = "json"
    /\ sessCalls' = sessCalls (-) SetToBag({c})
    /\ IF ~body.parsable
       THEN /\ lastEvent' = [Event("sessDone") EXCEPT !.outcome = "unparsable",
                                                      !.ok = body.ok]
            /\ UNCHANGED currentSessionId
       ELSE /\ currentSessionId' = storedSessionId(body)
            /\ lastEvent' = [Event("sessDone") EXCEPT !.outcome = "stored",
                                                      !.ok = body.ok,
                                                      !.sid = body.session_id]
    /\ UNCHANGED <<isWaitingResponse, isComposing, inputValue, sendBtnDisabled,
                   chatContainer, chatCalls, hasMarked, hasDOMPurify>>

----------------------------------------------------------------------------
(* Specification *)

Next ==
    \/ HandleSendCall
    \/ SendBtnClick
    \/ \E v \in InputValues : InputEvent(v)
    \/ CompositionStart
    \/ CompositionEnd
    \/ \E key \in Keys, shift \in BOOLEAN : Keydown(key, shift)
    \/ handleNewChat
    \/ \E i \in 1..MaxChatCalls, outcome \in FetchOutcomes : ChatFetchSettles(i, outcome)
    \/ \E i \in 1..MaxChatCalls, body \in ChatBodies : ChatJsonSettles(i, body)
    \/ \E c \in SessCallStates, outcome \in SessFetchOutcomes : SessFetchSettles(c, outcome)
    \/ \E c \in SessCallStates, body \in SessBodies : SessJsonSettles(c, body)

Spec == Init /\ [][Next]_vars

\* every issued /api/chat request settles: the fetch resolves or rejects, and
\* the body of a response that arrived is read or fails to parse
ChatRequestSettles ==
    \/ \E i \in 1..MaxChatCalls, outcome \in FetchOutcomes : ChatFetchSettles(i, outcome)
    \/ \E i \in 1..MaxChatCalls, body \in ChatBodies : ChatJsonSettles(i, body)

FairSpec == Spec /\ WF_vars(ChatRequestSettles)

----------------------------------------------------------------------------
(* Properties *)

\* the /api/chat requests that have been issued and have not settled
OutstandingChatRequests == {i \in DOMAIN chatCalls : chatCalls[i].pc = "fetch"}

\* C1: in every reachable state at most one /api/chat request issued by
\* handleSend is outstanding, and at most one handleSend invocation is
\* suspended, whatever clicks, key presses, edits, new-chat clicks and
\* completions came before.
C1_AtMostOneOutstandingSend ==
    /\ Cardinality(OutstandingChatRequests) <= 1
    /\ Len(chatCalls) <= 1

\* a request is outstanding and handleSend has just been invoked again
C1_Witness ==
    /\ Cardinality(OutstandingChatRequests) = 1
    /\ lastEvent.invoked
    /\ ~lastEvent.accepted

\* C2: in every reachable state the send button is disabled exactly when a
\* chat request is pending or the trimmed input is empty.
C2_SendButtonState ==
    sendBtnDisabled <=> (isWaitingResponse \/ Trim(inputValue) = <<>>)

\* the button is enabled again right after an exchange has ended, the user
\* having typed a message while it was pending
C2_Witness ==
    /\ lastEvent.op = "chatDone"
    /\ ~sendBtnDisabled

\* C3: a handleSend invocation with empty or blank-only input changes nothing:
\* no request, no row added or removed in the view, input, busy flag and
\* session token as before.
C3_EmptySendIsNoOp ==
    [][(lastEvent'.invoked /\ Trim(inputValue) = <<>>)
          => UNCHANGED <<chatCalls, chatContainer, inputValue, isWaitingResponse,
                         currentSessionId, sendBtnDisabled>>]_vars

\* handleSend has just been invoked with blanks in the input, no request
\* pending and the welcome block showing
C3_Witness ==
    /\ lastEvent.invoked
    /\ ~lastEvent.accepted
    /\ inputValue = <<" ">>
    /\ ~isWaitingResponse
    /\ chatContainer = <<WelcomeElement>>

\* C4: a handleSend invocation while a chat request is pending changes
\* nothing, also with a message in the input: no second request, no row
\* added, the text typed during the wait stays.
C4_BusySendIsNoOp ==
    [][(lastEvent'.invoked /\ isWaitingResponse)
          => UNCHANGED <<chatCalls, chatContainer, inputValue, isWaitingResponse,
                         currentSessionId, sendBtnDisabled>>]_vars

\* handleSend has just been invoked with a message in the input while a
\* request was pending
C4_Witness ==
    /\ lastEvent.invoked
    /\ ~lastEvent.accepted
    /\ isWaitingResponse
    /\ Trim(inputValue) /= <<>>
    /\ Len(chatCalls) = 1

----------------------------------------------------------------------------
(* Exchanges *)

\* the message rows of a view, without the welcome block
Rows(view) == SelectSeq(view, LAMBDA e : ~IsWelcome(e))

\* the user row of an exchange
UserRow(call) == MessageElement("user", "text", call.message)

\* the assistant rows that carry the apology
ApologyRows ==
    {MessageElement("assistant", "text", ApologyText),
     MessageElement("assistant", "html", DOMPurifySanitize(markedParse(ApologyText)))}

\* the step ends a handleSend invocation with one of the given outcomes
ExchangeEnds(outcomes) ==
    /\ lastEvent'.op = "chatDone"
    /\ lastEvent'.outcome \in outcomes
    /\ Len(chatCalls) = 1

\* C5: when an exchange ends in success, the view holds the message rows it
\* held before the send, then the user message, then one assistant message,
\* and the busy flag is off, whatever happened while the request was pending.
C5_SuccessfulExchange ==
    [][ExchangeEnds({"success"})
          => /\ \E a \in {e \in {chatContainer'[i] : i \in DOMAIN chatContainer'} :
                              IsAssistantMessage(e)} :
                    Rows(chatContainer') =
                        Rows(chatCalls[1].viewBefore) \o <<UserRow(chatCalls[1]), a>>
             /\ ~isWaitingResponse']_vars

\* C6: when an exchange ends in a network error or a non-2xx status, the
\* typing row is gone, the view holds the user message followed by one
\* assistant message with the apology and no other new row, and the busy flag
\* is off.
C6_FailedExchange ==
    [][ExchangeEnds({"network-error", "http-error"})
          => /\ \A i \in DOMAIN chatContainer' : ~IsLoading(chatContainer'[i])
             /\ \E a \in ApologyRows :
                    Rows(chatContainer') =
                        Rows(chatCalls[1].viewBefore) \o <<UserRow(chatCalls[1]), a>>
             /\ ~isWaitingResponse']_vars

\* C7: a new-chat click leaves exactly the welcome block in the view, and the
\* view stays so until a send is accepted.
C7_ResetLeavesWelcomeOnly ==
    [][/\ lastEvent'.op = "newChat" => chatContainer' = <<WelcomeElement>>
       /\ (chatContainer = <<WelcomeElement>> /\ ~lastEvent'.accepted)
              => chatContainer' = <<WelcomeElement>>]_vars

----------------------------------------------------------------------------
(* Rendering *)

ViewElements == {chatContainer[i] : i \in DOMAIN chatContainer}

\* C8: assistant content never sits in the view as unsanitized markup: an
\* assistant row is markup only when both libraries are present, and then it
\* is parsed Markdown with nothing executable left; otherwise it is plain
\* text.  A user row is always plain text.
C8_NoUnsanitizedMarkup ==
    \A e \in ViewElements :
        /\ IsUserMessage(e) => e.mode = "text"
        /\ IsAssistantMessage(e) =>
              \/ e.mode = "text" /\ ~(hasMarked /\ hasDOMPurify)
              \/ /\ e.mode = "html"
                 /\ hasMarked /\ hasDOMPurify
                 /\ \A k \in DOMAIN e.body :
                        ~IsExecutable(e.body[k]) /\ e.body[k] /= "*a*"

\* a reply that carried a script tag is in the view, parsed and sanitized
C8_Witness ==
    /\ lastEvent.op = "chatDone"
    /\ lastEvent.outcome = "success"
    /\ MessageElement("assistant", "html", <<"a", "<em>a</em>">>) \in ViewElements

----------------------------------------------------------------------------
(* Cleanup *)

\* C9: every accepted send ends with the busy flag cleared, whatever the
\* outcome, provided its request settles; each way an exchange can end
\* clears the flag and recomputes the send button; nothing else clears it.
C9_BusyFlagCleared ==
    /\ isWaitingResponse ~> ~isWaitingResponse
    /\ [][lastEvent'.op = "chatDone"
             => /\ ~isWaitingResponse'
                /\ sendBtnDisabled' <=> (Trim(inputValue') = <<>>)]_vars
    /\ [][(isWaitingResponse /\ ~isWaitingResponse') => lastEvent'.op = "chatDone"]_vars

\* an exchange whose reply could not be rendered has ended and the flag is off
C9_Witness ==
    /\ lastEvent.op = "chatDone"
    /\ lastEvent.outcome = "render-error"
    /\ ~isWaitingResponse

----------------------------------------------------------------------------
(* Session token *)

\* C10: when a /api/new_session request succeeds the token of its body is
\* stored; when it fails (the fetch rejects, or the response has a non-2xx
\* status) currentSessionId is left as it was; no request is issued again.
C10_SessionTokenOnFailureKept ==
    [][lastEvent'.op = "sessDone"
          => /\ BagCardinality(sessCalls') = BagCardinality(sessCalls) - 1
             /\ IF lastEvent'.outcome = "stored" /\ lastEvent'.ok
                THEN currentSessionId' = lastEvent'.sid
                ELSE (lastEvent'.outcome = "network-error" \/ ~lastEvent'.ok)
                         => currentSessionId' = currentSessionId]_vars

----------------------------------------------------------------------------
(* Reset during an exchange *)

\* C11: a new-chat click while a chat request is pending cancels nothing and
\* leaves the busy flag and the button alone; the button is disabled as long
\* as the request is pending; and when the request then ends, an assistant row
\* is appended to the cleared view, which then holds the welcome block and an
\* assistant message without a user message.
C11_StaleReplyAfterReset ==
    [][/\ lastEvent'.op = "newChat"
            => UNCHANGED <<chatCalls, isWaitingResponse, sendBtnDisabled>>
       /\ isWaitingResponse => sendBtnDisabled
       /\ (lastEvent'.op = "chatDone" /\ chatContainer = <<WelcomeElement>>)
            => /\ Len(chatContainer') = 2
               /\ chatContainer'[1] = WelcomeElement
               /\ IsAssistantMessage(chatContainer'[2])]_vars

\* a request that was pending at a reset has ended: the view is the welcome
\* block followed by an assistant message
C11_Witness ==
    /\ lastEvent.op = "chatDone"
    /\ Len(chatContainer) = 2
    /\ chatContainer[1] = WelcomeElement
    /\ IsAssistantMessage(chatContainer[2])

----------------------------------------------------------------------------
(* The accepted send *)

\* C12: an accepted send is one step in which the input is cleared, the
\* welcome block is removed, the user message and after it the typing row are
\* appended, the busy flag is set, and exactly one request is issued with the
\* trimmed text and the value currentSessionId had.
C12_AcceptedSendEffects ==
    [][lastEvent'.accepted
          => /\ inputValue' = <<>>
             /\ \A i \in DOMAIN chatContainer' : ~IsWelcome(chatContainer'[i])
             /\ chatContainer' =
                    Rows(chatContainer)
                        \o <<MessageElement("user", "text", Trim(inputValue)),
                             LoadingElement>>
             /\ isWaitingResponse'
             /\ Len(chatCalls') = Len(chatCalls) + 1
             /\ LET call == chatCalls'[Len(chatCalls')]
                IN  /\ call.pc = "fetch"
                    /\ call.message = Trim(inputValue)
                    /\ call.session_id = currentSessionId]_vars

\* a send has just been accepted; its request carries a token the backend
\* issued
C12_Witness ==
    /\ lastEvent.accepted
    /\ Len(chatCalls) = 1
    /\ chatCalls[1].session_id \in Tokens
    /\ chatContainer = <<MessageElement("user", "text", <<"a">>), LoadingElement>>

----------------------------------------------------------------------------
(* Enter key *)

\* C13: a key press during composition never submits, neither does
\* Shift+Enter; a key press submits exactly when it is an unshifted Enter
\* outside composition with no request pending and a non-blank input.
C13_EnterSubmission ==
    [][lastEvent'.op = "keydown"
          => /\ isComposing => ~lastEvent'.invoked
             /\ lastEvent'.shift => ~lastEvent'.invoked
             /\ lastEvent'.invoked
                    <=> /\ lastEvent'.key = "Enter"
                        /\ ~lastEvent'.shift
                        /\ ~isComposing
                        /\ ~isWaitingResponse
                        /\ Trim(inputValue) /= <<>>
             /\ lastEvent'.invoked => lastEvent'.accepted]_vars

\* Enter was pressed during composition with a message ready to send, and
\* nothing was submitted
C13_Witness ==
    /\ lastEvent.op = "keydown"
    /\ lastEvent.key = "Enter"
    /\ ~lastEvent.shift
    /\ isComposing
    /\ ~lastEvent.invoked
    /\ ~isWaitingResponse
    /\ Trim(inputValue) /= <<>>

----------------------------------------------------------------------------
(* Placeholders *)

LoadingRows == {i \in DOMAIN chatContainer : IsLoading(chatContainer[i])}

C15_WelcomeExcludesUserMessage ==
    ~(/\ \E i \in DOMAIN chatContainer : IsWelcome(chatContainer[i])
      /\ \E i \in DOMAIN chatContainer : IsUserMessage(chatContainer[i]))

\* a send has just been accepted on a view that showed the welcome block
C15_Witness ==
    /\ lastEvent.accepted
    /\ Len(chatCalls) = 1
    /\ \E i \in DOMAIN chatCalls[1].viewBefore : IsWelcome(chatCalls[1].viewBefore[i])
    /\ \E i \in DOMAIN chatContainer : IsUserMessage(chatContainer[i])

----------------------------------------------------------------------------
(* Overlapping session requests *)

\* C16: every /api/new_session body that is read stores its token, whatever
\* other session requests are outstanding or have completed, and nothing else
\* changes currentSessionId: after several completions the token is the one
\* of the body read last.  A new-chat click leaves the token alone, and an
\* accepted send carries the token stored at that moment.
C16_LastSessionResponseWins ==
    [][/\ (lastEvent'.op = "sessDone" /\ lastEvent'.outcome = "stored")
            => currentSessionId' = lastEvent'.sid
       /\ currentSessionId' /= currentSessionId
            => (lastEvent'.op = "sessDone" /\ lastEvent'.outcome = "stored")
       /\ lastEvent'.accepted
            => chatCalls'[Len(chatCalls')].session_id = currentSessionId]_vars

\* a chat request went out with the token s1 of an earlier session response;
\* a later session response has stored s2, and no session request is left
C16_Witness ==
    /\ lastEvent.op = "sessDone"
    /\ lastEvent.outcome = "stored"
    /\ lastEvent.ok
    /\ lastEvent.sid = "s2"
    /\ currentSessionId = "s2"
    /\ BagCardinality(sessCalls) = 0
    /\ Len(chatCalls) = 1
    /\ chatCalls[1].session_id = "s1"

\* C17: until a /api/new_session request has succeeded currentSessionId is
\* 'default', and a chat request issued then carries 'default'.
C17_DefaultTokenUntilSuccess ==
    [][/\ (currentSessionId = DefaultSessionId
             /\ ~(lastEvent'.op = "sessDone" /\ lastEvent'.outcome = "stored"
                    /\ lastEvent'.ok))
            => currentSessionId' = DefaultSessionId
       /\ (lastEvent'.accepted /\ currentSessionId = DefaultSessionId)
            => chatCalls'[Len(chatCalls')].session_id = DefaultSessionId]_vars

====
